---- MODULE Spec2Model ----
(***************************************************************************)
(* Model of blugnu/database: the connection state (db, mru, connectors),   *)
(* the connector rotation of connection.connectany, the two try methods    *)
(* (noretry.try, retry.try) and connection.Transact.  Spec starts from a   *)
(* configured connection; SpecConfig starts from the empty connection and  *)
(* applies the configuration functions of configuration.go.                *)
(*                                                                         *)
(* In Spec and SpecConfig a single caller drives the connection; SpecRace  *)
(* has two callers inside retry.try on one connection, their steps         *)
(* interleaved as the unsynchronised code allows.  SpecProbe is the        *)
(* connect pass of NewConnection over connectors that may answer a ping    *)
(* late, and SpecNested is Transact with a unit of work that calls the     *)
(* connection.                                                             *)
(*                                                                         *)
(* Each API call is broken into the steps of its code; pc is the caller's  *)
(* position.  Which connectors open and ping during a call, and what the   *)
(* operation returns on its k-th invocation, is drawn when the call        *)
(* starts; what the configuration hook, the unit of work, commit and       *)
(* rollback return is drawn when they run.  The locals of a call and the   *)
(* observations made of it live until the call returns to the caller.      *)
(***************************************************************************)
EXTENDS Integers, Sequences, FiniteSets, TLC

\* ---------------------------------------------------------------- bounds
MaxConnectors == 3      \* connectors configured on a connection: 0..MaxConnectors
MaxOpCalls    == 4      \* invocations of op followed within one try call
MaxCfgs       == 3      \* configuration functions passed to NewConnection
MaxSlice      == 2      \* length of the slice passed to WithConnectors

\* ------------------------------------------------------------ error values
Nil == [type |-> "nil"]

\* the error an operation returns: kind "bad" is driver.ErrBadConn, "err" any other
OpErr(kind) == [type |-> "op", kind |-> kind]

ConnectionError(cnc, op) == [type |-> "ConnectionError", cnc |-> cnc, op |-> op]

ConnectionFailedError(e) == [type |-> "ConnectionFailedError", error |-> e]

ConfigurationError(e) == [type |-> "ConfigurationError", error |-> e]

\* type Error string, and the errors of the configuration functions
Error(s) == [type |-> "Error", text |-> s]

ErrWithDbAndWithConnectorsIsInvalid == Error("WithDbAndWithConnectors")

ErrWithDbAndWithConfigurationIsInvalid == Error("WithDbAndWithConfiguration")

ErrNoConnectorsConfigured == Error("NoConnectorsConfigured")

ErrPingTimeoutIsInvalid == Error("PingTimeoutIsInvalid")

IsNotNil(e) == e # Nil

\* errors.Join: nil arguments are discarded; nil when nothing is left
Join(es) ==
    LET s == SelectSeq(es, IsNotNil)
    IN  IF s = <<>> THEN Nil ELSE [type |-> "join", errs |-> s]

\* errors.Is(err, driver.ErrBadConn) on the error returned by op
IsBadConn(e) == e.type = "op" /\ e.kind = "bad"

\* ------------------------------------------------------------------ handles
\* a *sql.DB: the connector that produced it and the serial of the open
\* within the current call (0: the handle was opened by an earlier call)
NoDb == [cnc |-> -1, n |-> 0]

Handle(cnc, n) == [cnc |-> cnc, n |-> n]

\* the *sql.DB handed to WithDb: it comes from no connector
InjectedDb == [cnc |-> -2, n |-> 0]

Carry(h) == IF h = NoDb THEN NoDb ELSE Handle(h.cnc, 0)

VARIABLES
    connectors,   \* c.connectors: the connectors, by identity, in order
    pingTimeout,  \* c.pingTimeout
    ncfg,         \* configuration functions NewConnection has applied
    given,        \* the connectors the latest configuration function was handed
    N,            \* len(c.connectors)
    configure,    \* c.configure # nil
    trymethod,    \* "unset", "noretry" or "retry"
    db,           \* c.db
    mru,          \* c.mru
    dbHooks,      \* invocations of the configuration hook on the handle c.db
    pc,           \* position of the caller
    api,          \* the API call in progress
    \* behaviour of the backend and of the caller's functions in this call
    health,       \* per connector: "ok", "open" (open fails), "ping" (ping fails)
    opBad,        \* op returns ErrBadConn on invocations 1..opBad
    opFinal,      \* and then "ok" (nil), "err" (another error), "cancelled"
                  \* (context.Canceled) or "timeout" (context.DeadlineExceeded)
    hookOk,       \* the configuration hook returned nil whenever it ran
    work,         \* what the unit of work did: "none", "nil", "err", "bad",
                  \* "panic" (a value) or "panicnil" (panic(nil))
    commitOk,     \* tx.Commit returned nil
    rollbackOk,   \* tx.Rollback returned nil
    \* locals of connectany
    curr, ix, i, errs, cncerr,
    \* local of retry.try / noretry.try: the error of op, then the error returned
    err,
    \* locals of Transact: tx, the rollback flag, a panic in flight, named result
    tx, rollback, panicking, terr,
    name,         \* the transaction name given to Transact ("" in other calls)
    \* observations of the current call
    mru0,         \* c.mru when the call started
    db0,          \* c.db when the call started
    opArgs,       \* the handles op was invoked with, in order
    rotations,    \* rotation passes started
    probes,       \* connectors opened in the latest pass, in order
    passDb,       \* c.db when the latest pass started
    opens,        \* successful opens
    closed,       \* handles closed, in order
    closeErr,     \* the error of the latest db.Close within the call
    leaked,       \* handles opened that failed their ping and were dropped
    hookCalls,    \* invocations of the configuration hook
    uowCalls,     \* invocations of the unit of work
    commits,      \* tx.Commit attempts
    rollbacks,    \* tx.Rollback attempts
    \* a second caller, running one Exec under retry.try on the same connection
    pc2,          \* its position; "off" when there is no second caller
    curr2, ix2, i2,  \* its locals of connectany
    opens2,       \* its successful opens
    lost          \* handles that were c.db when another handle was assigned to it

cfgv   == <<connectors, pingTimeout, ncfg, given>>
peer   == <<pc2, curr2, ix2, i2, opens2>>
conn   == <<N, configure, trymethod, db, mru, dbHooks>>
script == <<health, opBad, opFinal>>
env    == <<health, opBad, opFinal, hookOk, work, commitOk, rollbackOk>>
cany   == <<curr, ix, i, errs, cncerr>>
txl    == <<tx, rollback, panicking, terr, name>>
obsTx  == <<uowCalls, commits, rollbacks>>
obsCn  == <<rotations, probes, passDb, opens, closed, closeErr, leaked, hookCalls>>
obs    == <<mru0, db0, opArgs, rotations, probes, passDb, opens, closed, closeErr,
            leaked, hookCalls, uowCalls, commits, rollbacks>>
vars   == <<connectors, pingTimeout, ncfg, given, dbHooks, N, configure, trymethod, db, mru, pc, api,
            health, opBad, opFinal, hookOk, work, commitOk, rollbackOk,
            curr, ix, i, errs, cncerr, err, tx, rollback, panicking, terr, name,
            mru0, db0, opArgs, rotations, probes, passDb, opens, closed, closeErr,
            leaked, hookCalls, uowCalls, commits, rollbacks,
            pc2, curr2, ix2, i2, opens2, lost>>

\* variant: the error does not carry the transaction name
TransactionErrorUnnamed(op, e) ==
    [type |-> "TransactionError", txn |-> "", op |-> op, error |-> e]

\* TransactionError{name, op, err}, in the Transact call in progress
TransactionError(op, e) ==
    [type |-> "TransactionError", txn |-> name, op |-> op, error |-> e]

Health   == {"ok", "open", "ping"}
\* "slow": the connector opens and answers its ping, but later than the ping
\* timeout and before the caller's ctx ends
HealthSlow == Health \cup {"slow"}
Healths  == [0 .. N - 1 -> Health]
AllOk    == [k \in 0 .. N - 1 |-> "ok"]
HookOks  == IF configure THEN BOOLEAN ELSE {TRUE}
Works    == {"nil", "err", "bad", "panic", "panicnil"}
\* the errors tx.Commit and tx.Rollback may return
TxErrs   == {"err", "bad"}

\* what op may return once the connection is good: every op runs under the
\* caller's ctx, the op of Ping under a ctx with the ping timeout as well
Finals(a) ==
    IF a = "Ping" THEN {"ok", "err", "cancelled", "timeout"}
    ELSE {"ok", "err", "cancelled"}

\* the transaction names a caller may give to Transact
Names == {"", "txa", "txb"}

NamesFor(a) == IF a = "Transact" THEN Names ELSE {""}

\* what op returns on its k-th invocation within the call
OpOutcome(k) == IF k <= opBad THEN "bad" ELSE opFinal

OpResult(k) == IF OpOutcome(k) = "ok" THEN Nil ELSE OpErr(OpOutcome(k))

opCalls == Len(opArgs)

\* ------------------------------------------------------------- construction
\* the connection after the configuration functions: connectors and maybe a
\* hook, or an injected handle, or neither
Init ==
    /\ N \in 0 .. MaxConnectors
    /\ connectors = [k \in 1 .. N |-> k - 1]
    /\ pingTimeout = 0
    /\ ncfg = 0 /\ given = <<>>
    /\ db \in (IF N = 0 THEN {NoDb, InjectedDb} ELSE {NoDb})
    /\ configure \in (IF db = NoDb THEN BOOLEAN ELSE {FALSE})
    /\ trymethod = "unset"
    /\ mru = -1 /\ dbHooks = 0
    /\ pc = "new"
    /\ api = "none"
    /\ health = AllOk /\ opBad = 0 /\ opFinal = "ok"
    /\ hookOk = TRUE /\ work = "none" /\ commitOk = TRUE /\ rollbackOk = TRUE
    /\ curr = -1 /\ ix = -1 /\ i = 0 /\ errs = <<>> /\ cncerr = Nil
    /\ err = Nil
    /\ tx = NoDb /\ rollback = FALSE /\ panicking = FALSE /\ terr = Nil
    /\ name = ""
    /\ mru0 = -1 /\ db0 = NoDb
    /\ opArgs = <<>> /\ rotations = 0 /\ probes = <<>> /\ passDb = NoDb
    /\ opens = 0 /\ closed = <<>> /\ closeErr = Nil /\ leaked = {} /\ hookCalls = 0
    /\ uowCalls = 0 /\ commits = 0 /\ rollbacks = 0
    /\ pc2 = "off" /\ curr2 = -1 /\ ix2 = -1 /\ i2 = 0 /\ opens2 = 0
    /\ lost = {}

\* a call returns to the caller: its locals and the observations of it end;
\* the handle the connection keeps is an old handle (serial 0) to the next call
Returns ==
    /\ pc' = "idle"
    /\ api' = "none"
    /\ db' = Carry(db)
    /\ health' = AllOk /\ opBad' = 0 /\ opFinal' = "ok"
    /\ hookOk' = TRUE /\ work' = "none" /\ commitOk' = TRUE /\ rollbackOk' = TRUE
    /\ curr' = -1 /\ ix' = -1 /\ i' = 0 /\ errs' = <<>> /\ cncerr' = Nil
    /\ err' = Nil
    /\ tx' = NoDb /\ rollback' = FALSE /\ panicking' = FALSE /\ terr' = Nil
    /\ name' = ""
    /\ mru0' = -1 /\ db0' = NoDb
    /\ opArgs' = <<>> /\ rotations' = 0 /\ probes' = <<>> /\ passDb' = NoDb
    /\ opens' = 0 /\ closed' = <<>> /\ closeErr' = Nil /\ leaked' = {} /\ hookCalls' = 0
    /\ uowCalls' = 0 /\ commits' = 0 /\ rollbacks' = 0
    /\ UNCHANGED <<cfgv, peer, lost, N, configure, trymethod, mru, dbHooks>>

\* entry of connectany: curr := c.mru; ix := curr; errs := make([]error, n)
Enterconnectany(d) ==
    /\ curr' = mru
    /\ ix' = mru
    /\ i' = 0
    /\ errs' = [k \in 1 .. N |-> Nil]
    /\ cncerr' = Nil
    /\ probes' = <<>>
    /\ passDb' = d
    /\ rotations' = rotations + 1
    /\ pc' = "probe"

\* variant: one connector is given the retrying method too
TryMethodForRetriesOne(n) == IF n = 0 THEN "noretry" ELSE "retry"

\* variant: the retrying method whatever the number of connectors
TryMethodForRetriesAll(n) == "retry"

\* the try method NewConnection chooses for n connectors
TryMethodFor(n) ==
    CASE n = 0 -> "noretry"
      [] n = 1 -> "noretry"
      [] OTHER -> "retry"

\* NewConnection without connectors and without a handle
NewConnectionUnconfigured ==
    /\ pc = "new"
    /\ N = 0 /\ db = NoDb
    /\ cncerr' = ConfigurationError(ErrNoConnectorsConfigured)
    /\ pc' = "dead"
    /\ UNCHANGED <<cfgv, peer, lost, conn, env, curr, ix, i, errs, err, txl, obs, api>>

\* NewConnection with an injected handle: connect is connectdb, the try
\* method is noretry, and the connection is returned without connecting
NewConnectionInjected ==
    /\ pc = "new"
    /\ N = 0 /\ db # NoDb
    /\ trymethod' = TryMethodFor(N)
    /\ pc' = "idle"
    /\ UNCHANGED <<cfgv, peer, lost, N, configure, db, mru, dbHooks, env, cany, err, txl,
                   obs, api>>

\* NewConnection: choose the try method from the connector count, connect
NewConnection ==
    /\ pc = "new"
    /\ N >= 1
    /\ api' = "NewConnection"
    /\ trymethod' = TryMethodFor(N)
    /\ health' \in Healths
    /\ Enterconnectany(db)
    /\ UNCHANGED <<cfgv, peer, lost, N, configure, db, mru, dbHooks, opBad, opFinal, hookOk, work,
                   commitOk, rollbackOk, err, txl, obsTx, mru0, db0, opArgs,
                   opens, closed, closeErr, leaked, hookCalls>>

\* -------------------------------------------------------------- connectany
\* variant: the rotation steps by two
CandidateSkips == (ix + 2) % N

\* variant: the rotation steps backwards
CandidateBackwards == (ix - 1) % N

\* one iteration of the loop of connectany: ix := (ix + 1) % n, open, ping
Candidate == (ix + 1) % N

AfterProbe == IF i + 1 < N THEN "probe" ELSE "check"

\* db.PingContext(ctx) in connectany: ctx is the caller's ctx as it came in,
\* no context.WithTimeout is put on it, so a late answer is waited for
ProbePing(h) == IF h = "slow" THEN "ok" ELSE h

\* c.open fails: the cause is recorded and the next candidate is tried
ProbeOpenFails ==
    /\ pc = "probe" /\ i < N
    /\ health[Candidate] = "open"
    /\ ix' = Candidate
    /\ i' = i + 1
    /\ probes' = Append(probes, Candidate)
    /\ errs' = Append(errs, ConnectionError(Candidate, "open db"))
    /\ pc' = AfterProbe
    /\ UNCHANGED <<cfgv, peer, lost, conn, env, txl, obsTx, api, curr, cncerr, err,
                   mru0, db0, opArgs, rotations, passDb, opens, closed, closeErr,
                   leaked, hookCalls>>

\* variant: the opened handle is installed before it is pinged
ProbePingFailsInstalled ==
    /\ pc = "probe" /\ i < N
    /\ health[Candidate] = "ping"
    /\ ix' = Candidate
    /\ i' = i + 1
    /\ probes' = Append(probes, Candidate)
    /\ opens' = opens + 1
    /\ db' = Handle(Candidate, opens + 1)
    /\ dbHooks' = 0
    /\ errs' = Append(errs, ConnectionError(Candidate, "ping"))
    /\ pc' = AfterProbe
    /\ UNCHANGED <<cfgv, peer, lost, N, configure, trymethod, mru, env, txl, obsTx, api, curr,
                   cncerr, err, mru0, db0, opArgs, rotations, passDb, closed, closeErr,
                   leaked, hookCalls>>

\* variant: c.mru is set when the connector opened, before the ping
ProbePingFailsSetsMru ==
    /\ pc = "probe" /\ i < N
    /\ health[Candidate] = "ping"
    /\ ix' = Candidate
    /\ mru' = Candidate
    /\ i' = i + 1
    /\ probes' = Append(probes, Candidate)
    /\ opens' = opens + 1
    /\ leaked' = leaked \cup {Handle(Candidate, opens + 1)}
    /\ errs' = Append(errs, ConnectionError(Candidate, "ping"))
    /\ pc' = AfterProbe
    /\ UNCHANGED <<cfgv, peer, lost, N, configure, trymethod, db, dbHooks, env, txl, obsTx, api, curr, cncerr, err,
                   mru0, db0, opArgs, rotations, passDb, closed, closeErr, hookCalls>>

\* variant: the handle that failed its ping is closed before the next candidate
ProbePingFailsCloses ==
    /\ pc = "probe" /\ i < N
    /\ ProbePing(health[Candidate]) = "ping"
    /\ ix' = Candidate
    /\ i' = i + 1
    /\ probes' = Append(probes, Candidate)
    /\ opens' = opens + 1
    /\ closed' = Append(closed, Handle(Candidate, opens + 1))
    /\ errs' = Append(errs, ConnectionError(Candidate, "ping"))
    /\ pc' = AfterProbe
    /\ UNCHANGED <<cfgv, peer, lost, conn, env, txl, obsTx, api, curr, cncerr, err,
                   mru0, db0, opArgs, rotations, passDb, leaked, closeErr, hookCalls>>

\* c.open succeeds, db.PingContext fails: the opened handle is dropped
ProbePingFails ==
    /\ pc = "probe" /\ i < N
    /\ ProbePing(health[Candidate]) = "ping"
    /\ ix' = Candidate
    /\ i' = i + 1
    /\ probes' = Append(probes, Candidate)
    /\ opens' = opens + 1
    /\ leaked' = leaked \cup {Handle(Candidate, opens + 1)}
    /\ errs' = Append(errs, ConnectionError(Candidate, "ping"))
    /\ pc' = AfterProbe
    /\ UNCHANGED <<cfgv, peer, lost, conn, env, txl, obsTx, api, curr, cncerr, err,
                   mru0, db0, opArgs, rotations, passDb, closed, closeErr, hookCalls>>

\* variant: the loop goes on after a connector connected (no break)
ProbeConnectsGoesOn ==
    /\ pc = "probe" /\ i < N
    /\ health[Candidate] = "ok"
    /\ ix' = Candidate
    /\ i' = i + 1
    /\ probes' = Append(probes, Candidate)
    /\ opens' = opens + 1
    /\ db' = Handle(Candidate, opens + 1)
    /\ dbHooks' = 0
    /\ mru' = Candidate
    /\ pc' = AfterProbe
    /\ UNCHANGED <<cfgv, peer, lost, N, configure, trymethod, env, txl, obsTx, api,
                   curr, errs, cncerr, err, mru0, db0, opArgs, rotations,
                   passDb, closed, closeErr, leaked, hookCalls>>

\* c.db = db: the handle c.db held, when it held one, is referenced no more
Overwrites(d) == IF d # NoDb THEN lost \cup {d} ELSE lost

\* open and ping succeed: c.db = db; c.mru = ix; break
ProbeConnects ==
    /\ pc = "probe" /\ i < N
    /\ ProbePing(health[Candidate]) = "ok"
    /\ ix' = Candidate
    /\ probes' = Append(probes, Candidate)
    /\ opens' = opens + 1
    /\ lost' = Overwrites(db)
    /\ db' = Handle(Candidate, opens + 1)
    /\ dbHooks' = 0
    /\ mru' = Candidate
    /\ pc' = "check"
    /\ UNCHANGED <<cfgv, peer, N, configure, trymethod, env, txl, obsTx, api,
                   curr, i, errs, cncerr, err, mru0, db0, opArgs, rotations,
                   passDb, closed, closeErr, leaked, hookCalls>>

\* after the loop: a pass that left c.mru equal to its starting value is
\* reported as failed
ConnectFailed(m, c) == m = c

connectanyFails ==
    /\ pc = "check"
    /\ ConnectFailed(mru, curr)
    /\ cncerr' = ConnectionFailedError(Join(errs))
    /\ pc' = "connected"
    /\ UNCHANGED <<cfgv, peer, lost, conn, env, txl, obs, api, curr, ix, i, errs, err>>

\* variant: a failed hook takes the new handle and the new mru back
connectanyConfiguresRollsBack ==
    /\ pc = "check"
    /\ ~ConnectFailed(mru, curr)
    /\ hookCalls' = IF configure THEN hookCalls + 1 ELSE hookCalls
    /\ \E hk \in HookOks :
          /\ hookOk' = (hookOk /\ hk)
          /\ cncerr' = IF configure /\ ~hk
                       THEN ConfigurationError(OpErr("hook"))
                       ELSE Nil
          /\ db' = IF configure /\ ~hk THEN NoDb ELSE db
          /\ dbHooks' = IF configure /\ hk THEN dbHooks + 1 ELSE 0
          /\ mru' = IF configure /\ ~hk THEN curr ELSE mru
    /\ pc' = "connected"
    /\ UNCHANGED <<cfgv, peer, lost, N, configure, trymethod, script, work, commitOk,
                   rollbackOk, txl, obsTx, api,
                   curr, ix, i, errs, err, mru0, db0, opArgs, rotations,
                   probes, passDb, opens, closed, closeErr, leaked>>

\* otherwise the configuration hook, when registered, runs on c.db
connectanyConfigures ==
    /\ pc = "check"
    /\ ~ConnectFailed(mru, curr)
    /\ hookCalls' = IF configure THEN hookCalls + 1 ELSE hookCalls
    /\ \E hk \in HookOks :
          /\ hookOk' = (hookOk /\ hk)
          /\ cncerr' = IF configure /\ ~hk
                       THEN ConfigurationError(OpErr("hook"))
                       ELSE Nil
    /\ dbHooks' = IF configure THEN dbHooks + 1 ELSE dbHooks
    /\ pc' = "connected"
    /\ UNCHANGED <<cfgv, peer, lost, N, configure, trymethod, db, mru, script, work,
                   commitOk, rollbackOk, txl, obsTx, api,
                   curr, ix, i, errs, err, mru0, db0, opArgs, rotations,
                   probes, passDb, opens, closed, closeErr, leaked>>

\* NewConnection returns the connection
NewConnectionReturns ==
    /\ pc = "connected" /\ api = "NewConnection"
    /\ cncerr = Nil
    /\ Returns

\* NewConnection returns nil and the error of connect: there is no connection
NewConnectionFails ==
    /\ pc = "connected" /\ api = "NewConnection"
    /\ cncerr # Nil
    /\ pc' = "dead"
    /\ UNCHANGED <<cfgv, peer, lost, conn, env, cany, txl, obs, api, err>>

\* ------------------------------------------------------------- try methods
\* variant: a missing handle is reported to op as a bad connection
OpPanicsNever(d) == FALSE

\* op(c.db) calls a method of *sql.DB on c.db: on a nil handle that is a nil
\* pointer dereference, a run-time panic
OpPanics(d) == d = NoDb

\* op panics in try: neither try method recovers, the panic leaves the call
tryPanics ==
    /\ pc = "try" /\ OpPanics(db)
    /\ opArgs' = Append(opArgs, db)
    /\ panicking' = TRUE
    /\ pc' = "panicked"
    /\ UNCHANGED <<cfgv, peer, lost, name, conn, env, cany, err, tx, rollback, terr, obsTx, obsCn,
                   api, mru0, db0>>

\* the panic reaches the caller, which goes on with the connection as it is
CallPanics ==
    /\ pc = "panicked"
    /\ Returns

\* variant: noretry.try reconnects on a bad connection, as retry.try does
noretrytryReconnects ==
    /\ pc = "try" /\ trymethod = "noretry" /\ ~OpPanics(db)
    /\ opCalls < MaxOpCalls
    /\ opArgs' = Append(opArgs, db)
    /\ err' = OpResult(opCalls + 1)
    /\ pc' = IF OpOutcome(opCalls + 1) = "bad" THEN "reconnect" ELSE "tried"
    /\ UNCHANGED <<cfgv, peer, lost, conn, env, cany, txl, obsTx, obsCn, api, mru0, db0>>

\* noretry.try: return op(c.db)
noretrytry ==
    /\ pc = "try" /\ trymethod = "noretry" /\ ~OpPanics(db)
    /\ opArgs' = Append(opArgs, db)
    /\ err' = OpResult(opCalls + 1)
    /\ pc' = "tried"
    /\ UNCHANGED <<cfgv, peer, lost, conn, env, cany, txl, obsTx, obsCn, api, mru0, db0>>

\* variant: every error of op leads to a reconnect
AfterOpAnyError(e) == IF e = Nil THEN "tried" ELSE "reconnect"

\* variant: an expired deadline is taken for a bad connection
AfterOpTimeoutIsBad(e) ==
    IF e = Nil \/ ~(IsBadConn(e) \/ e = OpErr("timeout"))
    THEN "tried" ELSE "reconnect"

\* variant: a cancelled context is taken for a bad connection
AfterOpCancelledIsBad(e) ==
    IF e = Nil \/ ~(IsBadConn(e) \/ e = OpErr("cancelled"))
    THEN "tried" ELSE "reconnect"

\* where retry.try goes after op returned e: it returns on nil and on any
\* error that is not ErrBadConn, otherwise it reconnects
AfterOp(e) == IF e = Nil \/ ~IsBadConn(e) THEN "tried" ELSE "reconnect"

\* retry.try: err := op(c.db)
retrytry ==
    /\ pc = "try" /\ trymethod = "retry" /\ ~OpPanics(db)
    /\ opCalls < MaxOpCalls
    /\ opArgs' = Append(opArgs, db)
    /\ err' = OpResult(opCalls + 1)
    /\ pc' = AfterOp(err')
    /\ UNCHANGED <<cfgv, peer, lost, conn, env, cany, txl, obsTx, obsCn, api, mru0, db0>>

\* db.Close() of handle d: nothing to close in NoDb
dbClose(d, ok) == IF d # NoDb /\ ~ok THEN OpErr("close") ELSE Nil

\* c.close(force): the error of db.Close is returned unless force
close(force, ok) == IF dbClose(db, ok) # Nil /\ ~force THEN dbClose(db, ok) ELSE Nil

\* variant: c.reconnect returns the error of c.close and does not connect
reconnectReturnsCloseError ==
    /\ pc = "reconnect"
    /\ db' = NoDb /\ dbHooks' = 0
    /\ closed' = IF db # NoDb THEN Append(closed, db) ELSE closed
    /\ \E ok \in BOOLEAN :
          /\ closeErr' = dbClose(db, ok)
          /\ IF closeErr' # Nil
                THEN /\ cncerr' = closeErr'
                     /\ pc' = "connected"
                     /\ UNCHANGED <<curr, ix, i, errs, probes, passDb, rotations>>
                ELSE Enterconnectany(NoDb)
    /\ UNCHANGED <<cfgv, peer, lost, N, configure, trymethod, mru, env, txl, obsTx, api,
                   err, mru0, db0, opArgs, opens, leaked, hookCalls>>

\* variant: c.reconnect closes the handle and leaves it in c.db
reconnectKeepsHandle ==
    /\ pc = "reconnect"
    /\ db' = db /\ dbHooks' = dbHooks
    /\ closed' = IF db # NoDb THEN Append(closed, db) ELSE closed
    /\ \E ok \in BOOLEAN : closeErr' = dbClose(db, ok)
    /\ Enterconnectany(NoDb)
    /\ UNCHANGED <<cfgv, peer, lost, N, configure, trymethod, mru, env, txl, obsTx, api,
                   err, mru0, db0, opArgs, opens, leaked, hookCalls>>

\* c.reconnect: c.close(true) clears and closes the handle, its result is
\* discarded, then c.connect
reconnect ==
    /\ pc = "reconnect"
    /\ db' = NoDb /\ dbHooks' = 0
    /\ closed' = IF db # NoDb THEN Append(closed, db) ELSE closed
    /\ \E ok \in BOOLEAN : closeErr' = dbClose(db, ok)
    /\ Enterconnectany(NoDb)
    /\ UNCHANGED <<cfgv, peer, lost, N, configure, trymethod, mru, env, txl, obsTx, api,
                   err, mru0, db0, opArgs, opens, leaked, hookCalls>>

\* variant: the error of the reconnect replaces the error of op
retryfailsDropsOpError ==
    /\ pc = "connected" /\ api # "NewConnection"
    /\ cncerr # Nil
    /\ err' = cncerr
    /\ pc' = "tried"
    /\ UNCHANGED <<cfgv, peer, lost, conn, env, cany, txl, obs, api>>

\* variant: when only the hook failed, retry.try invokes op on the new handle
retryfailsReplaysOnHookError ==
    /\ pc = "connected" /\ api # "NewConnection"
    /\ cncerr # Nil
    /\ err' = IF cncerr.type = "ConfigurationError" THEN err ELSE Join(<<err, cncerr>>)
    /\ pc' = IF cncerr.type = "ConfigurationError" THEN "try" ELSE "tried"
    /\ UNCHANGED <<cfgv, peer, lost, conn, env, cany, txl, obs, api>>

\* retry.try after c.reconnect failed: return errors.Join(err, cncerr)
retryfails ==
    /\ pc = "connected" /\ api # "NewConnection"
    /\ cncerr # Nil
    /\ err' = Join(<<err, cncerr>>)
    /\ pc' = "tried"
    /\ UNCHANGED <<cfgv, peer, lost, conn, env, cany, txl, obs, api>>

\* retry.try after c.reconnect succeeded: the loop invokes op again
retryloops ==
    /\ pc = "connected" /\ api # "NewConnection"
    /\ cncerr = Nil
    /\ pc' = "try"
    /\ UNCHANGED <<cfgv, peer, lost, conn, env, cany, txl, obs, api, err>>

\* ------------------------------------------------------------------- calls
\* a call on the connection starts: c.try(ctx, op)
Calls(a) ==
    /\ pc = "idle"
    /\ api' = a
    /\ health' \in Healths
    /\ opBad' \in 0 .. MaxOpCalls
    /\ opFinal' \in Finals(a)
    /\ name' \in NamesFor(a)
    /\ mru0' = mru /\ db0' = db
    /\ pc' = "try"
    /\ UNCHANGED <<cfgv, peer, lost, conn, hookOk, work, commitOk, rollbackOk, cany, err,
                   tx, rollback, panicking, terr,
                   opArgs, obsTx, obsCn>>

\* Exec (Prepare, Query and QueryRow have the same shape): err = c.try(op)
Exec == Calls("Exec")

ExecReturns ==
    /\ pc = "tried" /\ api = "Exec"
    /\ Returns

\* variant: the handle is kept when db.Close fails
AfterCloseKeepsOnError(d, ok) == IF ok THEN NoDb ELSE d

\* c.db after c.close found the handle d and db.Close ended as ok: c.db = nil
\* is assigned before db.Close is called
AfterClose(d, ok) == NoDb

\* Ping: c.try(op), op is db.PingContext under context.WithTimeout(ctx, t)
Ping == Calls("Ping")

PingReturns ==
    /\ pc = "tried" /\ api = "Ping"
    /\ Returns

\* Close: c.close(false)
Close ==
    /\ pc = "idle"
    /\ api' = "Close"
    /\ mru0' = mru /\ db0' = db
    /\ closed' = IF db # NoDb THEN <<db>> ELSE <<>>
    /\ \E ok \in BOOLEAN :
          /\ closeErr' = dbClose(db, ok)
          /\ err' = close(FALSE, ok)
          /\ db' = AfterClose(db, ok)
    /\ dbHooks' = 0
    /\ pc' = "closed"
    /\ UNCHANGED <<cfgv, peer, lost, N, configure, trymethod, mru, env, cany, txl, obsTx,
                   opArgs, rotations, probes, passDb, opens, leaked, hookCalls>>

CloseReturns ==
    /\ pc = "closed"
    /\ Returns

\* ---------------------------------------------------------------- Transact
\* Transact: the transaction is begun through c.try (op is db.BeginTx)
Transact == Calls("Transact")

\* variant: the error of begin is not looked at
BeginOkUnchecked(e) == TRUE

\* if err != nil { return TransactionError{name, "begin", err} }
BeginOk(e) == e = Nil

\* begin failed: return TransactionError{name, "begin", err}
TransactBeginFails ==
    /\ pc = "tried" /\ api = "Transact"
    /\ ~BeginOk(err)
    /\ terr' = TransactionError("begin", err)
    /\ pc' = "transacted"
    /\ UNCHANGED <<cfgv, peer, lost, name, conn, env, cany, obs, err, api, tx, rollback, panicking>>

\* begin succeeded: rollback := true and the deferred function is set up
TransactBegins ==
    /\ pc = "tried" /\ api = "Transact"
    /\ BeginOk(err)
    /\ tx' = db
    /\ rollback' = TRUE
    /\ pc' = "work"
    /\ UNCHANGED <<cfgv, peer, lost, name, conn, env, cany, obs, api, err, panicking, terr>>

\* variant: the transaction is not committed
AfterWorkSkipsCommit(w) == "deferred"

\* variant: a bad connection in the unit of work reconnects, as in retry.try
AfterWorkReconnects(w) ==
    IF w = "nil" THEN "commit" ELSE IF w = "bad" THEN "reconnect" ELSE "deferred"

\* variant: the rollback flag is not cleared before the commit
FlagAfterWorkKept(w) == rollback

\* the rollback flag after op(&transaction{tx}) ended as w: rollback = false
\* is reached when op returned nil
FlagAfterWork(w) == IF w = "nil" THEN FALSE ELSE rollback

\* what Transact does after op(&transaction{tx}) ended as w: a panic and a
\* returned error run the deferred function, nil goes on to commit
AfterWork(w) == IF w = "nil" THEN "commit" ELSE "deferred"

\* op(&transaction{tx}): on an error, return TransactionError{txn: name,
\* error: err}; on nil, rollback = false
TransactWork ==
    /\ pc = "work"
    /\ work' \in Works
    /\ uowCalls' = uowCalls + 1
    /\ panicking' = (work' \in {"panic", "panicnil"})
    /\ terr' = IF work' \in {"err", "bad"}
               THEN TransactionError("", OpErr(work'))
               ELSE terr
    /\ rollback' = FlagAfterWork(work')
    /\ pc' = AfterWork(work')
    /\ UNCHANGED <<cfgv, peer, lost, name, conn, script, hookOk, commitOk, rollbackOk, cany, obsCn,
                   api, err, tx, mru0, db0, opArgs, commits, rollbacks>>

\* tx.Commit: on an error, return TransactionError{name, "commit", err}
TransactCommit ==
    /\ pc = "commit"
    /\ commitOk' \in BOOLEAN
    /\ commits' = commits + 1
    /\ \E k \in (IF commitOk' THEN {"err"} ELSE TxErrs) :
          terr' = IF commitOk' THEN Nil
                  ELSE TransactionError("commit", OpErr(k))
    /\ pc' = "deferred"
    /\ UNCHANGED <<cfgv, peer, lost, name, conn, script, hookOk, work, rollbackOk, cany, obsCn,
                   api, err, tx, rollback, panicking, mru0, db0, opArgs,
                   uowCalls, rollbacks>>

\* r := recover() # nil in the deferred function: false without a panic, true
\* after a panic with a value; after panic(nil) recover() returns nil, or a
\* *runtime.PanicNilError where the build has that (go 1.21, panicnil=0)
RecoverResults ==
    IF ~panicking THEN {FALSE}
    ELSE IF work = "panicnil" THEN BOOLEAN ELSE {TRUE}

\* the named result after recover() in the deferred function
Recovered(p, e) == IF p THEN TransactionError("panic", OpErr("stack")) ELSE e

\* variant: the deferred function rolls back whatever the flag says
MustRollbackAlways == TRUE

\* variant: the deferred function never rolls back
MustRollbackNever == FALSE

\* variant: the error of the rollback replaces the named result
RollbackFailedReplaces(e, k) == TransactionError("rollback", OpErr(k))

\* err = errors.Join(err, TransactionError{name, "rollback", txerr})
RollbackFailed(e, k) == Join(<<e, TransactionError("rollback", OpErr(k))>>)

\* the deferred function rolls back while the flag is still set
MustRollback == rollback

\* the deferred function: recover, then tx.Rollback unless the flag was cleared;
\* a failed rollback is joined to the named result
TransactDeferred ==
    /\ pc = "deferred"
    /\ panicking' = FALSE
    /\ rollbackOk' \in (IF MustRollback THEN BOOLEAN ELSE {TRUE})
    /\ rollbacks' = IF MustRollback THEN rollbacks + 1 ELSE rollbacks
    /\ \E r \in RecoverResults, k \in (IF rollbackOk' THEN {"err"} ELSE TxErrs) :
          terr' = IF MustRollback /\ ~rollbackOk'
                  THEN RollbackFailed(Recovered(r, terr), k)
                  ELSE Recovered(r, terr)
    /\ pc' = "transacted"
    /\ UNCHANGED <<cfgv, peer, lost, name, conn, script, hookOk, work, commitOk, cany, obsCn,
                   api, err, tx, rollback, mru0, db0, opArgs, uowCalls, commits>>

TransactReturns ==
    /\ pc = "transacted"
    /\ Returns

\* ------------------------------------------------------------ specification
Next ==
    \/ NewConnectionUnconfigured
    \/ NewConnectionInjected
    \/ NewConnection
    \/ ProbeOpenFails
    \/ ProbePingFails
    \/ ProbeConnects
    \/ connectanyFails
    \/ connectanyConfigures
    \/ NewConnectionReturns
    \/ NewConnectionFails
    \/ tryPanics
    \/ CallPanics
    \/ noretrytry
    \/ retrytry
    \/ reconnect
    \/ retryfails
    \/ retryloops
    \/ Exec
    \/ ExecReturns
    \/ Ping
    \/ PingReturns
    \/ Close
    \/ CloseReturns
    \/ Transact
    \/ TransactBeginFails
    \/ TransactBegins
    \/ TransactWork
    \/ TransactCommit
    \/ TransactDeferred
    \/ TransactReturns

Spec == Init /\ [][Next]_vars

\* ----------------------------------------------------------- configuration
\* NewConnection from its first line: c := &connection{mru: -1}, then the
\* configuration functions in the order given, then the switch and connect
Connectors == 0 .. MaxConnectors - 1

\* the slices WithConnectors may be given: a connector may occur twice
Slices == UNION {[1 .. n -> Connectors] : n \in 0 .. MaxSlice}

\* the durations WithPingTimeout may be given
Durations == {-1, 0, 1}

\* slices.Contains(cnc.connectors, c)
Contains(s, c) == \E k \in 1 .. Len(s) : s[k] = c

\* variant: the connector is appended whether it is present or not
AddConnectorAlways(s, c) == Append(s, c)

\* if !slices.Contains(cnc.connectors, c) { append }
AddConnector(s, c) == IF Contains(s, c) THEN s ELSE Append(s, c)

RECURSIVE AddConnectors(_, _)
\* for _, c := range c { ... }
AddConnectors(s, cs) ==
    IF cs = <<>> THEN s ELSE AddConnectors(AddConnector(s, Head(cs)), Tail(cs))

\* what a call leaves alone while the connection is being configured
unconfigured == <<peer, lost, trymethod, mru, dbHooks, api, env, curr, ix, i, errs, err, txl, obs>>

InitConfig ==
    /\ connectors = <<>> /\ N = 0
    /\ pingTimeout = 0
    /\ ncfg = 0 /\ given = <<>>
    /\ db = NoDb
    /\ configure = FALSE
    /\ trymethod = "unset"
    /\ mru = -1 /\ dbHooks = 0
    /\ pc = "configure"
    /\ api = "none"
    /\ health = <<>> /\ opBad = 0 /\ opFinal = "ok"
    /\ hookOk = TRUE /\ work = "none" /\ commitOk = TRUE /\ rollbackOk = TRUE
    /\ curr = -1 /\ ix = -1 /\ i = 0 /\ errs = <<>> /\ cncerr = Nil
    /\ err = Nil
    /\ tx = NoDb /\ rollback = FALSE /\ panicking = FALSE /\ terr = Nil
    /\ name = ""
    /\ mru0 = -1 /\ db0 = NoDb
    /\ opArgs = <<>> /\ rotations = 0 /\ probes = <<>> /\ passDb = NoDb
    /\ opens = 0 /\ closed = <<>> /\ closeErr = Nil /\ leaked = {} /\ hookCalls = 0
    /\ uowCalls = 0 /\ commits = 0 /\ rollbacks = 0
    /\ pc2 = "off" /\ curr2 = -1 /\ ix2 = -1 /\ i2 = 0 /\ opens2 = 0
    /\ lost = {}

\* if err := cfg(c); err != nil { return nil, ConfigurationError{err} }
Applied(e) ==
    /\ ncfg' = ncfg + 1
    /\ cncerr' = IF e = Nil THEN Nil ELSE ConfigurationError(e)
    /\ pc' = IF e = Nil THEN "configure" ELSE "dead"

\* the error of WithConnector and of WithConnectors
WithConnectorError ==
    IF db # NoDb THEN ErrWithDbAndWithConnectorsIsInvalid ELSE Nil

WithConnector ==
    /\ pc = "configure" /\ ncfg < MaxCfgs
    /\ \E c \in Connectors :
          /\ given' = <<c>>
          /\ connectors' = IF WithConnectorError = Nil
                           THEN AddConnector(connectors, c) ELSE connectors
    /\ N' = Len(connectors')
    /\ Applied(WithConnectorError)
    /\ UNCHANGED <<pingTimeout, configure, db, unconfigured>>

WithConnectors ==
    /\ pc = "configure" /\ ncfg < MaxCfgs
    /\ \E cs \in Slices :
          /\ given' = cs
          /\ connectors' = IF WithConnectorError = Nil
                           THEN AddConnectors(connectors, cs) ELSE connectors
    /\ N' = Len(connectors')
    /\ Applied(WithConnectorError)
    /\ UNCHANGED <<pingTimeout, configure, db, unconfigured>>

\* the error of WithDbConfiguration
WithDbConfigurationError ==
    IF db # NoDb THEN ErrWithDbAndWithConfigurationIsInvalid ELSE Nil

\* WithDbConfiguration(cfg): cfg is a function or nil
WithDbConfiguration ==
    /\ pc = "configure" /\ ncfg < MaxCfgs
    /\ \E f \in BOOLEAN :
          configure' = IF WithDbConfigurationError = Nil THEN f ELSE configure
    /\ Applied(WithDbConfigurationError)
    /\ given' = <<>>
    /\ UNCHANGED <<connectors, N, pingTimeout, db, unconfigured>>

\* variant: WithDb accepts a handle whatever was configured before
WithDbErrorNone == Nil

\* the error of WithDb
WithDbError ==
    IF Len(connectors) > 0 THEN ErrWithDbAndWithConnectorsIsInvalid
    ELSE IF configure THEN ErrWithDbAndWithConfigurationIsInvalid
    ELSE Nil

\* WithDb(db): db is a handle or nil
WithDb ==
    /\ pc = "configure" /\ ncfg < MaxCfgs
    /\ \E d \in {NoDb, InjectedDb} :
          db' = IF WithDbError = Nil THEN d ELSE db
    /\ Applied(WithDbError)
    /\ given' = <<>>
    /\ UNCHANGED <<connectors, N, pingTimeout, configure, unconfigured>>

\* the error of WithPingTimeout(t)
WithPingTimeoutError(t) == IF t < 0 THEN ErrPingTimeoutIsInvalid ELSE Nil

WithPingTimeout ==
    /\ pc = "configure" /\ ncfg < MaxCfgs
    /\ \E t \in Durations :
          /\ pingTimeout' = IF WithPingTimeoutError(t) = Nil THEN t ELSE pingTimeout
          /\ Applied(WithPingTimeoutError(t))
    /\ given' = <<>>
    /\ UNCHANGED <<connectors, N, configure, db, unconfigured>>

\* every configuration function returned nil: NewConnection reaches its switch
NewConnectionConfigured ==
    /\ pc = "configure"
    /\ pc' = "new"
    /\ given' = <<>>
    /\ UNCHANGED <<connectors, pingTimeout, ncfg, peer, lost, conn, env, cany, err, txl, obs,
                   api>>

NextConfig ==
    \/ WithConnector
    \/ WithConnectors
    \/ WithDbConfiguration
    \/ WithDb
    \/ WithPingTimeout
    \/ NewConnectionConfigured
    \/ NewConnectionUnconfigured
    \/ NewConnectionInjected
    \/ NewConnection
    \/ ProbeOpenFails
    \/ ProbePingFails
    \/ ProbeConnects
    \/ connectanyFails
    \/ connectanyConfigures
    \/ NewConnectionReturns
    \/ NewConnectionFails

SpecConfig == InitConfig /\ [][NextConfig]_vars

\* ------------------------------------------------------------ two callers
\* Two goroutines share one connection under retry.try; nothing in connection
\* or in the try methods locks c.db or c.mru.  Both callers have called Exec
\* on a connection connected to connector 0.  The first runs retry.try by the
\* actions above.  The op of the second returns ErrBadConn on the handle it
\* finds and nil on the handle its reconnect leaves; each of its steps is
\* one read or write of c.db / c.mru, interleaved with the steps of the first.
InitRace ==
    /\ N \in 2 .. MaxConnectors
    /\ connectors = [k \in 1 .. N |-> k - 1]
    /\ pingTimeout = 0
    /\ ncfg = 0 /\ given = <<>>
    /\ db = Handle(0, 0)
    /\ configure = FALSE
    /\ trymethod = "retry"
    /\ mru = 0 /\ dbHooks = 0
    /\ pc = "try"
    /\ api = "Exec"
    /\ health \in Healths /\ opBad \in 0 .. MaxOpCalls /\ opFinal \in Finals("Exec")
    /\ hookOk = TRUE /\ work = "none" /\ commitOk = TRUE /\ rollbackOk = TRUE
    /\ curr = -1 /\ ix = -1 /\ i = 0 /\ errs = <<>> /\ cncerr = Nil
    /\ err = Nil
    /\ tx = NoDb /\ rollback = FALSE /\ panicking = FALSE /\ terr = Nil
    /\ name = ""
    /\ mru0 = 0 /\ db0 = Handle(0, 0)
    /\ opArgs = <<>> /\ rotations = 0 /\ probes = <<>> /\ passDb = NoDb
    /\ opens = 0 /\ closed = <<>> /\ closeErr = Nil /\ leaked = {} /\ hookCalls = 0
    /\ uowCalls = 0 /\ commits = 0 /\ rollbacks = 0
    /\ pc2 = "try" /\ curr2 = -1 /\ ix2 = -1 /\ i2 = 0 /\ opens2 = 0
    /\ lost = {}

\* what the second caller leaves alone: the first caller's call
first == <<cfgv, N, configure, trymethod, pc, api, env, cany, err, txl, obs>>

\* the handles the second caller opens: serials below zero
Handle2(cnc, n) == Handle(cnc, 0 - n)

\* retry.try of the second caller: err := op(c.db) on the handle it finds
PeerTries ==
    /\ pc2 = "try"
    /\ pc2' = IF OpPanics(db) THEN "panicked" ELSE "reconnect"
    /\ UNCHANGED <<first, db, mru, dbHooks, curr2, ix2, i2, opens2, lost>>

\* c.reconnect: c.close(true), then the entry of connectany
PeerReconnects ==
    /\ pc2 = "reconnect"
    /\ db' = NoDb /\ dbHooks' = 0
    /\ closed' = IF db # NoDb THEN Append(closed, db) ELSE closed
    /\ curr2' = mru /\ ix2' = mru /\ i2' = 0
    /\ pc2' = "probe"
    /\ UNCHANGED <<cfgv, N, configure, trymethod, pc, api, env, cany, err, txl, obsTx,
                   mru0, db0, opArgs, rotations, probes, passDb, opens, closeErr,
                   leaked, hookCalls, mru, opens2, lost>>

Candidate2 == (ix2 + 1) % N

\* open or ping of the candidate fails
PeerProbeFails ==
    /\ pc2 = "probe" /\ i2 < N
    /\ health[Candidate2] # "ok"
    /\ ix2' = Candidate2
    /\ i2' = i2 + 1
    /\ opens2' = IF health[Candidate2] = "ping" THEN opens2 + 1 ELSE opens2
    /\ pc2' = IF i2 + 1 < N THEN "probe" ELSE "check"
    /\ UNCHANGED <<first, db, mru, dbHooks, curr2, lost>>

\* open and ping succeed: c.db = db; c.mru = ix; break
PeerProbeConnects ==
    /\ pc2 = "probe" /\ i2 < N
    /\ health[Candidate2] = "ok"
    /\ ix2' = Candidate2
    /\ opens2' = opens2 + 1
    /\ lost' = Overwrites(db)
    /\ db' = Handle2(Candidate2, opens2 + 1)
    /\ dbHooks' = 0
    /\ mru' = Candidate2
    /\ pc2' = "check"
    /\ UNCHANGED <<first, curr2, i2>>

\* after the loop: c.mru == curr fails the reconnect and with it try,
\* otherwise the hook runs and retry.try loops
PeerChecks ==
    /\ pc2 = "check"
    /\ dbHooks' = IF ~ConnectFailed(mru, curr2) /\ configure
                  THEN dbHooks + 1 ELSE dbHooks
    /\ pc2' = IF ConnectFailed(mru, curr2) THEN "done" ELSE "retry"
    /\ UNCHANGED <<first, db, mru, curr2, ix2, i2, opens2, lost>>

\* retry.try loops: op(c.db) again, on whatever c.db is now
PeerRetries ==
    /\ pc2 = "retry"
    /\ pc2' = IF OpPanics(db) THEN "panicked" ELSE "done"
    /\ UNCHANGED <<first, db, mru, dbHooks, curr2, ix2, i2, opens2, lost>>

NextRace ==
    \/ tryPanics
    \/ CallPanics
    \/ retrytry
    \/ reconnect
    \/ ProbeOpenFails
    \/ ProbePingFails
    \/ ProbeConnects
    \/ connectanyFails
    \/ connectanyConfigures
    \/ retryfails
    \/ retryloops
    \/ ExecReturns
    \/ PeerTries
    \/ PeerReconnects
    \/ PeerProbeFails
    \/ PeerProbeConnects
    \/ PeerChecks
    \/ PeerRetries

SpecRace == InitRace /\ [][NextRace]_vars

\* ------------------------------------------- calls from the unit of work
\* Transact under retry.try has begun its transaction on the handle of
\* connector 0 and is about to invoke the unit of work, a function of the
\* caller, which may call the connection itself: here it calls Exec once
\* (pc2 = "try") or not at all (pc2 = "off").  The call runs to its end
\* inside the unit of work, by the steps of retry.try above; its op returns
\* ErrBadConn on the handle it finds and nil after its reconnect.
InitNested ==
    /\ N \in 2 .. MaxConnectors
    /\ connectors = [k \in 1 .. N |-> k - 1]
    /\ pingTimeout = 0
    /\ ncfg = 0 /\ given = <<>>
    /\ db = Handle(0, 0)
    /\ configure = FALSE
    /\ trymethod = "retry"
    /\ mru = 0 /\ dbHooks = 0
    /\ pc = "work"
    /\ api = "Transact"
    /\ health \in Healths /\ opBad = 0 /\ opFinal = "ok"
    /\ hookOk = TRUE /\ work = "none" /\ commitOk = TRUE /\ rollbackOk = TRUE
    /\ curr = -1 /\ ix = -1 /\ i = 0 /\ errs = <<>> /\ cncerr = Nil
    /\ err = Nil
    /\ tx = Handle(0, 0) /\ rollback = TRUE /\ panicking = FALSE /\ terr = Nil
    /\ name \in Names
    /\ mru0 = 0 /\ db0 = Handle(0, 0)
    /\ opArgs = <<Handle(0, 0)>> /\ rotations = 0 /\ probes = <<>> /\ passDb = NoDb
    /\ opens = 0 /\ closed = <<>> /\ closeErr = Nil /\ leaked = {} /\ hookCalls = 0
    /\ uowCalls = 0 /\ commits = 0 /\ rollbacks = 0
    /\ pc2 \in {"off", "try"} /\ curr2 = -1 /\ ix2 = -1 /\ i2 = 0 /\ opens2 = 0
    /\ lost = {}

\* op(&transaction{tx}) returns when the calls it made have returned
TransactWorkNested ==
    /\ pc2 \in {"off", "done"}
    /\ TransactWork

NextNested ==
    \/ PeerTries
    \/ PeerReconnects
    \/ PeerProbeFails
    \/ PeerProbeConnects
    \/ PeerChecks
    \/ PeerRetries
    \/ TransactWorkNested
    \/ TransactCommit
    \/ TransactDeferred
    \/ TransactReturns

SpecNested == InitNested /\ [][NextNested]_vars

\* ------------------------------------------------------- slow connectors
\* NewConnection about to run its connect pass, on connectors some of which
\* answer a ping later than the ping timeout: t is c.pingTimeout when set and
\* the package's PingTimeout otherwise
InitProbe ==
    /\ N \in 1 .. MaxConnectors
    /\ connectors = [k \in 1 .. N |-> k - 1]
    /\ pingTimeout \in {t \in Durations : t >= 0}
    /\ ncfg = 0 /\ given = <<>>
    /\ db = NoDb
    /\ configure \in BOOLEAN
    /\ trymethod = TryMethodFor(N)
    /\ mru = -1 /\ dbHooks = 0
    /\ pc = "probe"
    /\ api = "NewConnection"
    /\ health \in [0 .. N - 1 -> HealthSlow] /\ opBad = 0 /\ opFinal = "ok"
    /\ hookOk = TRUE /\ work = "none" /\ commitOk = TRUE /\ rollbackOk = TRUE
    /\ curr = -1 /\ ix = -1 /\ i = 0 /\ errs = [k \in 1 .. N |-> Nil] /\ cncerr = Nil
    /\ err = Nil
    /\ tx = NoDb /\ rollback = FALSE /\ panicking = FALSE /\ terr = Nil
    /\ name = ""
    /\ mru0 = -1 /\ db0 = NoDb
    /\ opArgs = <<>> /\ rotations = 1 /\ probes = <<>> /\ passDb = NoDb
    /\ opens = 0 /\ closed = <<>> /\ closeErr = Nil /\ leaked = {} /\ hookCalls = 0
    /\ uowCalls = 0 /\ commits = 0 /\ rollbacks = 0
    /\ pc2 = "off" /\ curr2 = -1 /\ ix2 = -1 /\ i2 = 0 /\ opens2 = 0
    /\ lost = {}

NextProbe ==
    \/ ProbeOpenFails
    \/ ProbePingFails
    \/ ProbeConnects
    \/ connectanyFails
    \/ connectanyConfigures
    \/ NewConnectionReturns
    \/ NewConnectionFails

SpecProbe == InitProbe /\ [][NextProbe]_vars

\* ------------------------------------------------------------------ claims
Workable == {k \in 0 .. N - 1 : health[k] = "ok"}

\* the j-th candidate of the latest pass
Probe(j) == (curr + j) % N

\* the position in probe order of the first connector that opens and pings
FirstOk ==
    CHOOSE j \in 1 .. N :
        /\ health[Probe(j)] = "ok"
        /\ \A k \in 1 .. j - 1 : health[Probe(k)] # "ok"

\* the cause connectany records for the j-th candidate of a pass
Cause(j) ==
    ConnectionError(Probe(j), IF health[Probe(j)] = "open" THEN "open db" ELSE "ping")

PassOver == rotations > 0 /\ pc \in {"check", "connected"}

\* C1: under retry.try, when op returns ErrBadConn on its first invocation and
\* nil on its second and some connector opens and pings (the configuration
\* hook not failing), try returns nil after one rotation pass and two
\* invocations of op, also when the only workable connector is the MRU one.
C1_TryRecoversAfterOneRotation ==
    (/\ pc = "tried" /\ trymethod = "retry"
     /\ opBad = 1 /\ opFinal = "ok"
     /\ Workable # {} /\ hookOk)
    => (err = Nil /\ rotations = 1 /\ opCalls = 2)

\* C2: within one call of retry.try op is invoked at most N + 1 times.
C2_OpInvokedAtMostNPlusOne ==
    trymethod = "retry" => opCalls <= N + 1

\* C3: connectany returns a ConnectionFailedError only when every connector
\* failed to open or to ping, and the error then wraps one cause per connector.
C3_ConnectionFailedOnlyWhenAllFail ==
    (pc = "connected" /\ cncerr.type = "ConnectionFailedError")
    => (/\ Workable = {}
        /\ cncerr.error.type = "join"
        /\ Len(cncerr.error.errs) = N)

\* C4: a rotation pass that starts with mru = m probes (m+1)%N, (m+2)%N, ... in
\* that order, each connector at most once, and no candidate after the first
\* one that connected; from m = -1 it starts at connector 0.
C4_ProbeOrder ==
    rotations > 0 =>
        /\ Len(probes) <= N
        /\ \A j \in 1 .. Len(probes) : probes[j] = Probe(j)
        /\ \A j, k \in 1 .. Len(probes) : probes[j] = probes[k] => j = k
        /\ \A j \in 1 .. Len(probes) - 1 : health[probes[j]] # "ok"
        /\ (curr = -1 /\ probes # <<>>) => probes[1] = 0

C4_Witness ==
    /\ pc = "check" /\ N = 3 /\ curr = 1 /\ probes = <<2, 0, 1>>

\* C5: when some connector opens and pings, the pass ends at the first such
\* connector in probe order: mru is its index, c.db is the handle it opened
\* (the latest one opened) and nothing was opened after it.
C5_FirstWorkableInstalled ==
    (PassOver /\ Workable # {})
    => (/\ mru = Probe(FirstOk)
        /\ db = Handle(Probe(FirstOk), opens)
        /\ Len(probes) = FirstOk
        /\ probes[Len(probes)] = mru)

C5_Witness ==
    /\ PassOver /\ N = 3 /\ curr = 0
    /\ health = (0 :> "ok" @@ 1 :> "ping" @@ 2 :> "ok")
    /\ mru = 2 /\ db = Handle(2, 2) /\ probes = <<1, 2>>

\* C6: when no connector opens and pings, the pass leaves mru and c.db as they
\* were when it started and the ConnectionFailedError wraps exactly N causes,
\* one per connector, in attempt order.
C6_FailedPassChangesNothing ==
    (PassOver /\ Workable = {})
    => (/\ mru = curr
        /\ db = passDb
        /\ Len(probes) = N
        /\ pc = "connected" =>
              cncerr = ConnectionFailedError(
                          [type |-> "join", errs |-> [j \in 1 .. N |-> Cause(j)]]))

C6_Witness ==
    /\ pc = "connected" /\ N = 3 /\ curr = 1 /\ mru = 1
    /\ health = (0 :> "ping" @@ 1 :> "open" @@ 2 :> "open")
    /\ cncerr.type = "ConnectionFailedError"
    /\ Len(cncerr.error.errs) = 3

\* C7: under retry.try, when op returns an error that is not ErrBadConn, try
\* returns that error after one invocation of op and no rotation: nothing is
\* opened or closed, c.db and c.mru are unchanged.
C7_OtherErrorReturnedAtOnce ==
    (pc = "tried" /\ trymethod = "retry" /\ opBad = 0 /\ opFinal = "err")
    => (/\ err = OpErr("err")
        /\ opCalls = 1 /\ rotations = 0
        /\ opens = 0 /\ closed = <<>>
        /\ db = db0 /\ mru = mru0)

C7_Witness ==
    /\ pc = "tried" /\ trymethod = "retry" /\ opBad = 0 /\ opFinal = "err"
    /\ err = OpErr("err") /\ db0 # NoDb

\* C8: under retry.try, when op returns ErrBadConn and no connector connects,
\* try makes one rotation pass, invokes op once and returns the error of op
\* joined with the ConnectionFailedError of the pass.
C8_AllBadJoinsErrors ==
    (pc = "tried" /\ trymethod = "retry" /\ opBad >= 1 /\ Workable = {})
    => (/\ rotations = 1 /\ opCalls = 1
        /\ cncerr.type = "ConnectionFailedError"
        /\ err = [type |-> "join", errs |-> <<OpErr("bad"), cncerr>>])

C8_Witness ==
    /\ pc = "tried" /\ trymethod = "retry" /\ opBad >= 1 /\ Workable = {}
    /\ N = 3 /\ rotations = 1 /\ err.type = "join"

\* C9: noretry.try invokes op once, on the handle the connection held, and
\* returns what op returned, whether ErrBadConn, another error or nil, with no
\* rotation and c.db and c.mru unchanged.
C9_NoRetryReturnsOpResult ==
    (pc = "tried" /\ trymethod = "noretry")
    => (/\ opCalls = 1 /\ opArgs[1] = db0
        /\ err = OpResult(1)
        /\ rotations = 0 /\ opens = 0 /\ closed = <<>>
        /\ db = db0 /\ mru = mru0)

C9_Witness ==
    /\ pc = "tried" /\ trymethod = "noretry" /\ opBad >= 1
    /\ err = OpErr("bad") /\ db0 # NoDb

\* C10: in a Transact whose begin succeeded the unit of work is invoked once
\* and one terminal operation is attempted, once: commit or rollback, never
\* both, never neither, whether the unit of work returns nil, an error or panics.
C10_OneTerminalOperation ==
    /\ uowCalls <= 1 /\ commits + rollbacks <= 1
    /\ (pc = "transacted" /\ err = Nil) => (uowCalls = 1 /\ commits + rollbacks = 1)

C10_Witness ==
    /\ pc = "transacted" /\ err = Nil /\ work = "panic"
    /\ uowCalls = 1 /\ rollbacks = 1 /\ commits = 0

\* a Transact whose begin succeeded, from the unit of work on
TxBegun ==
    /\ api = "Transact" /\ err = Nil
    /\ pc \in {"work", "commit", "deferred", "transacted"}

\* ... and that is about to return terr
TxDone == api = "Transact" /\ err = Nil /\ pc = "transacted"

\* C11: when the unit of work returns nil, Transact attempts the commit and
\* never a rollback; when the commit succeeds Transact returns nil.
C11_NilCommits ==
    /\ (TxBegun /\ work = "nil") => rollbacks = 0
    /\ (TxDone /\ work = "nil") =>
          (commits = 1 /\ rollbacks = 0 /\ (commitOk => terr = Nil))

C11_Witness ==
    TxDone /\ work = "nil" /\ commitOk /\ commits = 1 /\ terr = Nil

\* C12: when the unit of work returns an error, the rollback is attempted once
\* and the commit never; when the rollback succeeds Transact returns a
\* TransactionError with an empty op wrapping the error of the unit of work.
C12_ErrorRollsBack ==
    /\ (TxBegun /\ work \in {"err", "bad"}) => commits = 0
    /\ (TxDone /\ work \in {"err", "bad"}) =>
          /\ rollbacks = 1 /\ commits = 0
          /\ rollbackOk => terr = TransactionError("", OpErr(work))

C12_Witness ==
    /\ TxDone /\ work = "err" /\ rollbackOk /\ rollbacks = 1
    /\ terr = TransactionError("", OpErr("err"))

\* a TransactionError with op "panic", alone or first of a join
IsPanicError(e) ==
    \/ e.type = "TransactionError" /\ e.op = "panic"
    \/ e.type = "join" /\ e.errs[1].type = "TransactionError"
                       /\ e.errs[1].op = "panic"

\* C13: when the unit of work panics, Transact attempts the rollback once and
\* the commit never, the panic does not reach the caller, and Transact returns
\* a TransactionError with op "panic".
C13_PanicReported ==
    (TxDone /\ work \in {"panic", "panicnil"}) =>
        /\ rollbacks = 1 /\ commits = 0
        /\ ~panicking
        /\ IsPanicError(terr)

\* C14: when the unit of work returns nil and the commit fails, Transact
\* returns a TransactionError with op "commit" wrapping the error of the
\* commit, and no rollback is attempted.
C14_CommitFailureNoRollback ==
    (TxDone /\ work = "nil" /\ ~commitOk) =>
        /\ terr.type = "TransactionError" /\ terr.op = "commit"
        /\ terr.error \in {OpErr(k) : k \in TxErrs}
        /\ commits = 1 /\ rollbacks = 0

C14_Witness ==
    /\ TxDone /\ work = "nil" /\ ~commitOk /\ rollbacks = 0
    /\ terr = TransactionError("commit", OpErr("err"))

\* C15: when the unit of work returns an error and the rollback fails too,
\* Transact returns the join of the TransactionError with an empty op wrapping
\* the error of the unit of work and a TransactionError with op "rollback"
\* wrapping the error of the rollback.
C15_RollbackFailureJoined ==
    (TxDone /\ work \in {"err", "bad"} /\ ~rollbackOk) =>
        /\ terr.type = "join" /\ Len(terr.errs) = 2
        /\ terr.errs[1] = TransactionError("", OpErr(work))
        /\ terr.errs[2] \in {TransactionError("rollback", OpErr(k)) : k \in TxErrs}

C15_Witness ==
    /\ TxDone /\ work = "err" /\ ~rollbackOk /\ rollbacks = 1
    /\ terr.type = "join"
    /\ terr.errs[2] = TransactionError("rollback", OpErr("err"))

\* C16: when begin fails (after the reconnects of the try method), Transact
\* returns a TransactionError with op "begin" wrapping the error of try, which
\* under retry.try holds the ConnectionFailedError when begin met a bad
\* connection and no connector connects; the unit of work is not invoked and
\* neither commit nor rollback is attempted.
C16_BeginFailure ==
    (api = "Transact" /\ pc = "transacted" /\ err # Nil) =>
        /\ terr = TransactionError("begin", err)
        /\ uowCalls = 0 /\ commits = 0 /\ rollbacks = 0
        /\ (trymethod = "retry" /\ opBad >= 1 /\ Workable = {}) =>
              /\ err.type = "join"
              /\ err.errs[2].type = "ConnectionFailedError"

C16_Witness ==
    /\ api = "Transact" /\ pc = "transacted" /\ trymethod = "retry"
    /\ opBad >= 1 /\ Workable = {}
    /\ terr.type = "TransactionError" /\ terr.op = "begin"
    /\ terr.error.errs[2].type = "ConnectionFailedError"

\* C17: only the begin of Transact goes through the try method.  Under
\* retry.try every begin that met a bad connection was followed by a rotation
\* and, when that connected, another begin; once begun, nothing rotates,
\* closes or opens a handle or invokes begin again, whatever the unit of work,
\* commit and rollback return, and an ErrBadConn from them fails the call.
C17_OnlyBeginRetried ==
    /\ (api = "Transact" /\ trymethod = "retry" /\ pc = "tried" /\ opBad >= 1) =>
          /\ rotations >= 1
          /\ err = Nil => (opCalls = opBad + 1 /\ rotations = opBad)
    /\ TxBegun =>
          /\ db = tx
          /\ rotations = (IF trymethod = "retry" THEN opCalls - 1 ELSE 0)
          /\ Len(closed) <= rotations /\ opens <= rotations * N
          /\ uowCalls <= 1 /\ commits <= 1 /\ rollbacks <= 1
    /\ (TxDone /\ (work = "bad" \/ ~commitOk \/ ~rollbackOk)) => terr # Nil

C17_Witness ==
    /\ TxDone /\ trymethod = "retry" /\ work = "bad" /\ ~rollbackOk
    /\ opBad = 1 /\ rotations = 1 /\ opCalls = 2
    /\ terr.errs[2] = TransactionError("rollback", OpErr("bad"))

\* C18: Close on a connection without a handle returns nil and calls no
\* db.Close; after every Close, the one whose db.Close fails and returns that
\* error included, the connection has no handle, so that a second Close is
\* again the Close of a connection without a handle.
C18_CloseLeavesNoHandle ==
    pc = "closed" =>
        /\ db = NoDb
        /\ db0 = NoDb => (err = Nil /\ closed = <<>>)
        /\ db0 # NoDb => (closed = <<db0>> /\ err \in {Nil, OpErr("close")})

C18_Witness ==
    /\ pc = "closed" /\ api = "Close" /\ mru0 >= 0
    /\ db0 = NoDb /\ db = NoDb /\ err = Nil /\ closed = <<>>

\* the try method the connection was given matches its connector count
StrategyMatchesCount ==
    /\ N = 0 => (db0 \in {NoDb, InjectedDb} /\ trymethod = "noretry")
    /\ N = 1 => trymethod = "noretry"
    /\ N >= 2 => trymethod = "retry"

\* C19: NewConnection chooses the try method from the connector count (an
\* injected handle and no connector: noretry; one connector: noretry; two or
\* more: retry), and once chosen no step of any later call changes the try
\* method or the connectors.
C19_StrategyFixed ==
    /\ [](pc \notin {"new", "dead"} => StrategyMatchesCount)
    /\ [][trymethod # "unset" =>
             (trymethod' = trymethod /\ N' = N /\ connectors' = connectors)]_vars

C19_Witness ==
    /\ pc = "transacted" /\ N = 0 /\ trymethod = "noretry"
    /\ db = InjectedDb /\ opArgs = <<InjectedDb>> /\ rotations = 0
    /\ connectors = <<>>

\* the connection holds the handle given to WithDb
HasInjected == db = InjectedDb

HasConnectors == Len(connectors) >= 1

\* C20: whatever configuration functions NewConnection is given, in whatever
\* order, the connection never holds both an injected handle and connectors;
\* NewConnection ends in a ConfigurationError when it holds neither; and a
\* connection NewConnection returns holds exactly one of the two, has a
\* configuration hook only with connectors, and a ping timeout >= 0.
C20_ConfigurationExclusive ==
    /\ N = Len(connectors)
    /\ ~(HasInjected /\ HasConnectors)
    /\ (pc \notin {"configure", "new"} /\ ~HasInjected /\ ~HasConnectors) =>
          (pc = "dead" /\ cncerr.type = "ConfigurationError")
    /\ pc = "idle" =>
          /\ HasInjected # HasConnectors
          /\ configure => HasConnectors
          /\ pingTimeout >= 0
          /\ trymethod # "unset"

C20_Witness ==
    /\ pc = "dead" /\ ncfg = 2 /\ HasConnectors /\ db = NoDb
    /\ cncerr = ConfigurationError(ErrWithDbAndWithConnectorsIsInvalid)

\* the connector the latest pass opened last
LastProbed == probes[Len(probes)]

\* C21: when a pass of connectany installed a new handle and the registered
\* configuration hook then failed, the pass reports a ConfigurationError, the
\* handle it opened is still c.db and c.mru is the connector that produced it;
\* the hook ran once in that pass (every pass of the call so far ran it once).
C21_HookFailureKeepsHandle ==
    (pc = "connected" /\ cncerr.type = "ConfigurationError") =>
        /\ configure /\ ~hookOk
        /\ cncerr = ConfigurationError(OpErr("hook"))
        /\ db = Handle(LastProbed, opens)
        /\ mru = LastProbed /\ health[mru] = "ok"
        /\ db # passDb
        /\ hookCalls = rotations

C21_Witness ==
    /\ pc = "connected" /\ api = "Exec" /\ rotations = 2
    /\ cncerr = ConfigurationError(OpErr("hook"))
    /\ db = Handle(mru, opens) /\ hookCalls = 2

\* C22: with a configuration hook registered, every step that runs op does so
\* against a handle on which the hook was called exactly once, when that
\* handle came from a connector's open.
C22_HookedBeforeOp ==
    [][(pc = "try" /\ pc' # "try" /\ configure /\ db.cnc >= 0) => dbHooks = 1]_vars

\* the first connector, in configuration order, that opens and pings
LowestOk == CHOOSE k \in Workable : \A j \in Workable : k <= j

\* C23: NewConnection with one or more connectors connects with the first
\* connector, in configuration order, that opens and pings: mru is its index
\* and c.db the handle it opened, and connect fails only on the error of the
\* configuration hook; when no connector connects NewConnection returns a
\* ConnectionFailedError and no connection.
C23_InitialConnection ==
    /\ (api = "NewConnection" /\ pc = "connected" /\ Workable # {}) =>
          /\ mru = LowestOk
          /\ db = Handle(LowestOk, opens)
          /\ probes = [j \in 1 .. LowestOk + 1 |-> j - 1]
          /\ cncerr \in {Nil, ConfigurationError(OpErr("hook"))}
          /\ cncerr = Nil <=> hookOk
    /\ (api = "NewConnection" /\ pc \in {"connected", "dead"} /\ Workable = {}) =>
          /\ cncerr.type = "ConnectionFailedError"
          /\ db = NoDb /\ mru = -1
    /\ (api = "NewConnection" /\ pc = "dead") => cncerr # Nil

C23_Witness ==
    /\ api = "NewConnection" /\ pc = "connected" /\ N = 3
    /\ health = (0 :> "open" @@ 1 :> "ping" @@ 2 :> "ok")
    /\ mru = 2 /\ db = Handle(2, 2) /\ cncerr = Nil

\* C24 as stated: under retry.try a Ping whose op ends in an expired ping
\* timeout is followed by a rotation, as after ErrBadConn.
C24_TimeoutRotates ==
    (pc = "tried" /\ api = "Ping" /\ trymethod = "retry"
     /\ opBad = 0 /\ opFinal = "timeout")
    => rotations >= 1

\* C24, amended: under retry.try a Ping whose op ends in an expired ping
\* timeout returns context.DeadlineExceeded after that invocation: only
\* ErrBadConn is followed by a rotation and another invocation of op, so that
\* rotations and invocations are those the ErrBadConn results called for.
C24_TimeoutReturnedAtOnce ==
    (pc = "tried" /\ api = "Ping" /\ trymethod = "retry"
     /\ OpOutcome(opCalls) = "timeout")
    => (/\ err = OpErr("timeout")
        /\ opCalls = opBad + 1 /\ rotations = opBad
        /\ opBad = 0 => (db = db0 /\ mru = mru0 /\ opens = 0 /\ closed = <<>>))

C24_Witness ==
    /\ pc = "tried" /\ api = "Ping" /\ trymethod = "retry"
    /\ opBad = 0 /\ opFinal = "timeout" /\ opCalls = 1
    /\ err = OpErr("timeout") /\ rotations = 0 /\ db0 # NoDb

\* C25: under either try method, an op that fails on a cancelled context has
\* its error returned by try, and that invocation is followed by no rotation
\* and no further invocation of op.
C25_CancelNotRetried ==
    (pc = "tried" /\ opCalls >= 1 /\ OpOutcome(opCalls) = "cancelled")
    => (/\ err = OpErr("cancelled")
        /\ opCalls = opBad + 1
        /\ rotations = (IF trymethod = "retry" THEN opBad ELSE 0)
        /\ opBad = 0 => (db = db0 /\ mru = mru0 /\ opens = 0 /\ closed = <<>>))

C25_Witness ==
    /\ pc = "tried" /\ api = "Exec" /\ trymethod = "retry"
    /\ opBad = 0 /\ opFinal = "cancelled" /\ opCalls = 1
    /\ err = OpErr("cancelled") /\ rotations = 0 /\ db = db0 /\ db0 # NoDb

\* C26: a Ping that starts on a connection without a handle connects through
\* the connectors before its op runs: op is not invoked against the missing
\* handle and the call does not end in a panic.
C26_PingConnectsFirst ==
    (api = "Ping" /\ db0 = NoDb) =>
        /\ opArgs # <<>> => opArgs[1] # NoDb
        /\ ~panicking

\* a caller is between the close of the old handle and the end of its pass
Rotating1 == api # "NewConnection" /\ pc \in {"probe", "check"}

Rotating2 == pc2 \in {"probe", "check"}

\* C27: with two callers on one retry.try connection, at most one of them is
\* between closing the old handle and installing the new one; no handle is
\* assigned over an installed handle that was not closed; and the op a caller
\* replays after its rotation connected does not find c.db cleared.
C27_RotationsSerialized ==
    /\ ~(Rotating1 /\ Rotating2)
    /\ lost = {}
    /\ (pc = "try" /\ rotations >= 1) => db # NoDb
    /\ pc2 = "retry" => db # NoDb

\* the TransactionErrors an error returned by Transact consists of
Parts(e) ==
    IF e.type = "join" THEN {e.errs[k] : k \in 1 .. Len(e.errs)} ELSE {e}

\* C28: every error Transact returns, on the begin, unit-of-work, panic, commit
\* and rollback paths and their joins, consists of TransactionErrors that
\* carry the name the caller gave; and what Transact performs is determined
\* by what begin, the unit of work, commit and rollback did, whatever the name.
C28_ErrorsCarryName ==
    (api = "Transact" /\ pc = "transacted") =>
        /\ terr # Nil =>
              \A e \in Parts(terr) : e.type = "TransactionError" /\ e.txn = name
        /\ uowCalls = (IF err = Nil THEN 1 ELSE 0)
        /\ commits = (IF err = Nil /\ work = "nil" THEN 1 ELSE 0)
        /\ rollbacks = (IF err = Nil /\ work # "nil" THEN 1 ELSE 0)

C28_Witness ==
    /\ api = "Transact" /\ pc = "transacted" /\ name = "txa"
    /\ work = "err" /\ ~rollbackOk
    /\ terr.errs[1].txn = "txa" /\ terr.errs[2].txn = "txa"
    /\ terr.errs[2].op = "rollback"

\* C29: c.mru is -1 or an index of c.connectors in every state, and it changes
\* only in the step of connectany in which a connector has opened and pinged,
\* to that connector's index and together with c.db; no failed open, failed
\* ping, Close or failed pass changes it.
C29_MruWrittenOnConnect ==
    /\ [](mru = -1 \/ mru \in 0 .. N - 1)
    /\ [][mru' # mru =>
             /\ pc = "probe" /\ health[Candidate] = "ok"
             /\ mru' = Candidate
             /\ db' = Handle(Candidate, opens')]_vars

C29_Witness ==
    /\ pc = "check" /\ api = "Exec" /\ N = 3
    /\ curr = 0 /\ probes = <<1, 2>> /\ health[1] = "ping" /\ health[2] = "ok"
    /\ mru = 2 /\ db = Handle(2, 2)

\* C30: when retry.try reconnects after a bad-connection failure, the step
\* clears c.db and closes the handle op just failed on before any connector
\* of the pass is opened, whatever db.Close returned the pass is entered and
\* the error appears nowhere, and each later invocation of op in the call
\* receives the handle the pass installed, a handle that was never closed.
C30_ClosedBeforeRotation ==
    /\ [][pc = "reconnect" =>
             /\ db # NoDb /\ db = opArgs[Len(opArgs)]
             /\ db' = NoDb /\ closed' = Append(closed, db)
             /\ opens' = opens /\ probes' = <<>>
             /\ pc' = "probe" /\ cncerr' = Nil /\ err' = err]_vars
    /\ [](pc = "probe" /\ api # "NewConnection" => db = NoDb /\ passDb = NoDb)
    /\ [][(pc = "try" /\ opArgs # <<>> /\ opArgs' # opArgs) =>
             /\ db # NoDb /\ ~Contains(closed, db)
             /\ db = Handle(mru, opens)
             /\ opArgs' = Append(opArgs, db)
             /\ closed[Len(closed)] = opArgs[Len(opArgs)]]_vars
    /\ [](api # "Close" /\ closeErr # Nil =>
             /\ err # closeErr /\ cncerr # closeErr
             /\ err.type = "join" => ~Contains(err.errs, closeErr))

C30_Witness ==
    /\ pc = "tried" /\ api = "Exec" /\ err = Nil
    /\ closeErr = OpErr("close")
    /\ Len(opArgs) = 2 /\ closed = <<opArgs[1]>>
    /\ opArgs[2] = db /\ db # opArgs[1] /\ db # NoDb

\* C31: in a pass of connectany the ping of an opened candidate is bounded by
\* the ping timeout, as the ping of Connection.Ping is: a candidate that
\* answers later than the timeout is recorded as a "ping" failure and is not
\* the handle the pass installs.
C31_ProbePingBounded ==
    pc = "check" =>
        \A k \in 1 .. Len(probes) :
            health[probes[k]] = "slow" =>
                /\ Contains(errs, ConnectionError(probes[k], "ping"))
                /\ db.cnc # probes[k]

\* the candidates of the latest pass that opened and then failed their ping
PingFailures == {k \in 1 .. Len(probes) : health[probes[k]] = "ping"}

\* C32: a handle that opened and failed its ping is dropped without a close:
\* it is never c.db and never among the closed handles, and at the end of the
\* first pass of a call with k ping failures there are k such handles, every
\* other open of the pass being the handle the pass installed.
C32_PingFailedHandleDropped ==
    /\ \A h \in leaked : h # db /\ ~Contains(closed, h) /\ h \notin lost
    /\ (pc = "check" /\ rotations = 1) =>
          /\ Cardinality(leaked) = Cardinality(PingFailures)
          /\ opens = Cardinality(leaked) + (IF db # passDb THEN 1 ELSE 0)

C32_Witness ==
    /\ pc = "check" /\ rotations = 1 /\ N = 3 /\ curr = -1
    /\ health[0] = "ping" /\ health[1] = "ping" /\ health[2] = "ok"
    /\ leaked = {Handle(0, 1), Handle(1, 2)}
    /\ db = Handle(2, 3) /\ closed = <<>>

\* C33: when the unit of work panics and the rollback fails too, Transact
\* returns the join of a TransactionError with op "panic" and a
\* TransactionError with op "rollback" wrapping the error of the rollback; the
\* rollback was attempted once, the commit never, and the panic does not
\* reach the caller.
C33_PanicAndRollbackJoined ==
    (TxDone /\ work \in {"panic", "panicnil"} /\ ~rollbackOk) =>
        /\ terr.type = "join" /\ Len(terr.errs) = 2
        /\ terr.errs[1] = TransactionError("panic", OpErr("stack"))
        /\ terr.errs[2] \in {TransactionError("rollback", OpErr(k)) : k \in TxErrs}
        /\ rollbacks = 1 /\ commits = 0
        /\ ~panicking

\* the connectors of a slice
Range(s) == {s[k] : k \in 1 .. Len(s)}

\* where a connector occurs first in a slice
FirstAt(g, c) == CHOOSE k \in 1 .. Len(g) : g[k] = c /\ \A j \in 1 .. k - 1 : g[j] # c

\* C34: c.connectors never holds a connector twice, and each configuration
\* function applied leaves the connectors it found in their places and
\* appends exactly the connectors it was handed that were not yet present,
\* once each, in the order in which they first occur in what it was handed:
\* handed only connectors already present (or failing) it leaves the list as
\* it was.  No other step changes the list.
C34_ConnectorsAddedOnce ==
    /\ [](\A a, b \in 1 .. Len(connectors) : a # b => connectors[a] # connectors[b])
    /\ [][/\ ncfg' = ncfg => connectors' = connectors
          /\ ncfg' # ncfg =>
               /\ Len(connectors') >= Len(connectors)
               /\ SubSeq(connectors', 1, Len(connectors)) = connectors
               /\ Range(connectors') =
                     IF pc' = "configure"
                     THEN Range(connectors) \cup Range(given')
                     ELSE Range(connectors)
               /\ \A a, b \in Len(connectors) + 1 .. Len(connectors') :
                     a < b => FirstAt(given', connectors'[a])
                                 < FirstAt(given', connectors'[b])]_vars

C34_Witness ==
    /\ pc = "configure" /\ ncfg = 2
    /\ connectors = <<1, 0>> /\ given = <<0, 1>>

\* C35: on a connection built from connectors, with one caller, in every state
\* in which c.db holds a handle it is a handle the connector c.connectors[c.mru]
\* opened.
C35_HandleFromMru ==
    (N >= 1 /\ db # NoDb) => (mru \in 0 .. N - 1 /\ db.cnc = mru)

C35_Witness ==
    /\ pc = "tried" /\ api = "Exec" /\ N = 3 /\ rotations = 2
    /\ mru0 = 0 /\ mru = 2 /\ db = Handle(2, opens) /\ leaked # {}
    /\ C35_HandleFromMru

C37_TxHandleStaysOpen ==
    (api = "Transact" /\ err = Nil /\ pc \in {"work", "commit", "deferred"}
       /\ commits = 0 /\ rollbacks = 0) =>
        ~Contains(closed, tx)

\* C38: under retry.try, when the reconnect after an ErrBadConn installed a
\* new handle and the configuration hook failed on it, try returns the join
\* of the ErrBadConn of op and the ConfigurationError; op is not invoked on the
\* new handle, which stays c.db, with c.mru moved on to its connector.
C38_HookFailureEndsTry ==
    (pc = "tried" /\ trymethod = "retry" /\ cncerr.type = "ConfigurationError") =>
        /\ err = Join(<<OpErr("bad"), ConfigurationError(OpErr("hook"))>>)
        /\ opCalls = rotations
        /\ opArgs[opCalls] = closed[Len(closed)]
        /\ db = Handle(LastProbed, opens) /\ ~Contains(opArgs, db)
        /\ ~Contains(closed, db)
        /\ mru = LastProbed /\ mru # curr

C38_Witness ==
    /\ pc = "tried" /\ api = "Exec" /\ trymethod = "retry" /\ N = 2
    /\ cncerr = ConfigurationError(OpErr("hook"))
    /\ mru0 = 0 /\ mru = 1 /\ db = Handle(1, 1)
    /\ opArgs = <<Handle(0, 0)>> /\ closed = <<Handle(0, 0)>>
    /\ err.type = "join"

\* C39: on a connection built from an injected handle, NewConnection returns
\* without an open and without invoking anything on the handle, and no Ping,
\* Exec or Transact, whatever its op returns (ErrBadConn included), starts a
\* pass, opens or closes a handle, assigns c.db or moves c.mru from -1: op is
\* invoked once, on the injected handle, and its result is the result of try.
C39_InjectedHandleKept ==
    /\ [](N = 0 =>
             /\ mru = -1 /\ opens = 0 /\ rotations = 0
             /\ probes = <<>> /\ leaked = {}
             /\ api # "Close" => closed = <<>>)
    /\ []((N = 0 /\ pc = "tried") =>
             /\ db = InjectedDb /\ opArgs = <<InjectedDb>>
             /\ err = OpResult(1))
    /\ [][(N = 0 /\ pc = "new" /\ db # NoDb) =>
             (pc' = "idle" /\ db' = db /\ opArgs' = <<>>)]_vars
    /\ [][(N = 0 /\ api' # "Close") => db' = db]_vars

C39_Witness ==
    /\ pc = "tried" /\ api = "Exec" /\ N = 0 /\ trymethod = "noretry"
    /\ opBad >= 1 /\ err = OpErr("bad")
    /\ db = InjectedDb /\ opArgs = <<InjectedDb>> /\ mru = -1

====
